---- MODULE Spec2Model ----
(***************************************************************************)
(* Model of the puzzle engine of daily-game (frontend/src/engine.ts): the  *)
(* seeded board generator, the attack model, the conflict evaluator, the   *)
(* backtracking solver and the solvable-board search.                      *)
(*                                                                         *)
(* Coordinates are 0-based as in the source; TLA+ sequences are 1-based,   *)
(* so cell (r,c) of a board is cells[r+1][c+1].  Strings are sequences of  *)
(* UTF-16 code units.  A 32-bit word is the pair <<hi, lo>> of its 16-bit  *)
(* halves, because the model checker's integers are 32-bit signed.         *)
(***************************************************************************)
EXTENDS Integers, Sequences, FiniteSets, TLC

VARIABLES
    mode,        \* which operation ran last ("input" before any call)
    board,       \* the Board the operations work on
    inventory,   \* the Inventory: a function from the piece types it names to counts
    placements,  \* the caller's placement list (the solver's `preplaced`)
    solution,    \* what solveWithInventory returned last
    conflicts,   \* what evaluateConflicts returned last
    rngA,        \* state `a` of the generator created last (mulberry32's closure)
    draws,       \* the numbers the generator produced for the board made last
    calls,       \* the calls of generateBoard and inventoryForSeed so far, with results
    found,       \* what findSolvableBoard returned last
    selected,    \* App: the piece type selected in the inventory bar
    showHint,    \* App: whether a hint was asked for
    hint,        \* App: hintState, the wrong and the suggested square
    stack,       \* backtrack: per open call, the index of the cell its loop is at
    visited,     \* backtrack: the placement list at each entry of backtrack so far
    occupiedKeys,    \* solveWithInventory: the set `occupied` of square keys
    remainingPieces  \* solveWithInventory: the sorted array remainingPieces

vars == <<mode, board, inventory, placements, solution, conflicts, rngA, draws, calls, found,
          selected, showHint, hint, stack, visited, occupiedKeys, remainingPieces>>

\* the state of App and of backtrack's frames
appVars == <<selected, showHint, hint>>
frameVars == <<stack, visited, occupiedKeys, remainingPieces>>

----------------------------------------------------------------------------
(* 32-bit arithmetic on <<hi, lo>> words                                    *)

Half == 65536

RECURSIVE Pow2(_)
Pow2(k) == IF k = 0 THEN 1 ELSE 2 * Pow2(k - 1)

RECURSIVE Xor16(_, _)
Xor16(x, y) ==
    IF x = 0 THEN y
    ELSE IF y = 0 THEN x
    ELSE 2 * Xor16(x \div 2, y \div 2) + ((x + y) % 2)

RECURSIVE Or16(_, _)
Or16(x, y) ==
    IF x = 0 THEN y
    ELSE IF y = 0 THEN x
    ELSE 2 * Or16(x \div 2, y \div 2) + (IF x % 2 = 1 \/ y % 2 = 1 THEN 1 ELSE 0)

\* a ^ b
WXor(a, b) == <<Xor16(a[1], b[1]), Xor16(a[2], b[2])>>

\* a | b
WOr(a, b) == <<Or16(a[1], b[1]), Or16(a[2], b[2])>>

\* a >>> k, 0 <= k < 32
WShr(a, k) ==
    IF k >= 16 THEN <<0, a[1] \div Pow2(k - 16)>>
    ELSE <<a[1] \div Pow2(k), (a[2] \div Pow2(k)) + (a[1] % Pow2(k)) * Pow2(16 - k)>>

\* a << k (low 32 bits), 0 <= k < 16
WShl(a, k) ==
    << ((a[1] % Pow2(16 - k)) * Pow2(k)) + (a[2] \div Pow2(16 - k)),
       (a[2] % Pow2(16 - k)) * Pow2(k) >>

\* (a + b) mod 2^32
WAdd(a, b) ==
    LET lo == a[2] + b[2]
    IN  <<(a[1] + b[1] + (lo \div Half)) % Half, lo % Half>>

\* the 32-bit product of two 16-bit numbers, as a word
Mul16(x, y) ==
    LET x1 == x \div 256
        x0 == x % 256
        y1 == y \div 256
        y0 == y % 256
        mid == x1 * y0 + x0 * y1
        low == (mid % 256) * 256 + x0 * y0
    IN  <<x1 * y1 + (mid \div 256) + (low \div Half), low % Half>>

\* Math.imul(a, b): the low 32 bits of the product
WImul(a, b) ==
    LET ll == Mul16(a[2], b[2])
        cross == (Mul16(a[1], b[2])[2] + Mul16(a[2], b[1])[2]) % Half
    IN  <<(ll[1] + cross) % Half, ll[2]>>

\* the word of a small non-negative number
WOf(n) == <<n \div Half, n % Half>>

----------------------------------------------------------------------------
(* Seeds, the seed hash and the generator                                   *)

\* 1779033703, 3432918353 and 0x6d2b79f5 as words
HashInit == <<27145, 58983>>
HashMul == <<52382, 11601>>
RngStep == <<27947, 31221>>

\* (h << 13) | (h >>> 19)
Rotl13(h) == WOr(WShl(h, 13), WShr(h, 19))

\* A 32-bit word: both halves within 16 bits.
IsWord(w) == w[1] \in 0..(Half - 1) /\ w[2] \in 0..(Half - 1)

\* The loop of hashSeed from character i (1-based) on.  Every intermediate h
\* is a 32-bit word.
RECURSIVE hashFold(_, _, _)
hashFold(h, seed, i) ==
    IF i > Len(seed) THEN h
    ELSE LET next == Rotl13(WImul(WXor(h, WOf(seed[i])), HashMul))
         IN  CASE IsWord(next) -> hashFold(next, seed, i + 1)

hashSeed(seed) ==
    LET h == hashFold(WXor(HashInit, WOf(Len(seed))), seed, 1)
    IN  WXor(h, WShr(h, 16))

\* One call of the closure mulberry32 returns: the new state a and the 32-bit
\* numerator u of the float u / 4294967296 it returns.
mulberry32(a) ==
    LET a1 == WAdd(a, RngStep)
        t1 == WImul(WXor(a1, WShr(a1, 15)), WOr(a1, WOf(1)))
        t2 == WXor(t1, WAdd(t1, WImul(WXor(t1, WShr(t1, 7)), WOr(t1, WOf(61)))))
    IN  [a |-> a1, u |-> WXor(t2, WShr(t2, 14))]

\* n more numbers of the generator in state a, appended to us, and the state
\* the generator is left in.
RECURSIVE rngLoop(_, _, _)
rngLoop(a, n, us) ==
    IF n = 0 THEN [a |-> a, us |-> us]
    ELSE LET step == mulberry32(a)
             more == Append(us, step.u)
         IN  CASE IsWord(step.a) /\ Len(more) > 0 -> rngLoop(step.a, n - 1, more)

\* The first n numbers of the generator started in state a.
rngDraws(a, n) == rngLoop(a, n, <<>>)

----------------------------------------------------------------------------
(* Board generation                                                         *)

\* DEFAULT_BLOCK_RATIO = 0.28 and MIN_VALID_RATIO = 0.45, in hundredths
DEFAULT_BLOCK_RATIO == 28
MIN_VALID_RATIO == 45

\* rng() < pct/100 for the float u / 2^32: u is below pct * 2^32 / 100, found
\* by long division on the halves (the quotient is exact when `exact`).
BelowRatio(u, pct) ==
    LET hiT == (pct * Half) \div 100
        rem == (pct * Half) % 100
        loT == (rem * Half) \div 100
        exact == (rem * Half) % 100 = 0
    IN  \/ u[1] < hiT
        \/ u[1] = hiT /\ u[2] < loT
        \/ u[1] = hiT /\ u[2] = loT /\ ~exact

\* Math.floor in place of Math.ceil
minValidFloor(total) == (total * MIN_VALID_RATIO) \div 100

\* Math.ceil(total * MIN_VALID_RATIO)
minValidOf(total) == (total * MIN_VALID_RATIO + 99) \div 100

\* The random pass: one number per cell, in row-major order.
randomPass(us, size) ==
    [r \in 1..size |->
        [c \in 1..size |->
            IF BelowRatio(us[(r - 1) * size + c], DEFAULT_BLOCK_RATIO)
            THEN "blocked" ELSE "valid"]]

countValid(cells) ==
    Cardinality({rc \in (DOMAIN cells) \X (DOMAIN cells) :
                    cells[rc[1]][rc[2]] = "valid"})

\* The repair pass from row-major position k (0-based), validCount so far.
RECURSIVE flipEarliest(_, _, _, _, _)
flipEarliest(cells, size, k, validCount, minValid) ==
    IF k >= size * size \/ validCount >= minValid THEN cells
    ELSE LET r == (k \div size) + 1
             c == (k % size) + 1
         IN  IF cells[r][c] = "blocked"
             THEN flipEarliest([cells EXCEPT ![r][c] = "valid"], size, k + 1,
                               validCount + 1, minValid)
             ELSE flipEarliest(cells, size, k + 1, validCount, minValid)

\* generateBoard with the generator's numbers given: both passes.
boardFromDraws(us, seed, size) ==
    LET cells == randomPass(us, size)
        validCount == countValid(cells)
        minValid == minValidOf(size * size)
    IN  [width |-> size, height |-> size,
         cells |-> IF validCount < minValid
                   THEN flipEarliest(cells, size, 0, validCount, minValid)
                   ELSE cells,
         seed |-> seed]

\* generateBoard drawing from the generator the last call left behind
generateBoardSharedRng(seed, size) ==
    boardFromDraws(rngDraws(rngA, size * size).us, seed, size)

generateBoard(seed, size) ==
    boardFromDraws(rngDraws(hashSeed(seed), size * size).us, seed, size)

isValidSquare(b, row, col) ==
    /\ row >= 0
    /\ col >= 0
    /\ row < b.height
    /\ col < b.width
    /\ b.cells[row + 1][col + 1] = "valid"

----------------------------------------------------------------------------
(* Strings                                                                  *)

\* String(n) for a non-negative integer: its decimal digits.
RECURSIVE digitsOf(_)
digitsOf(n) == IF n < 10 THEN <<48 + n>> ELSE Append(digitsOf(n \div 10), 48 + (n % 10))

\* `${n}` for an integer n
numStr(n) == IF n < 0 THEN <<45>> \o digitsOf(0 - n) ELSE digitsOf(n)

\* `${row},${col}`: the key of a square in the occupied and positions sets
keyOf(row, col) == numStr(row) \o <<44>> \o numStr(col)

----------------------------------------------------------------------------
(* Attack model                                                             *)

PieceTypes == {"queen", "rook", "bishop", "knight", "pawn", "king"}

sign(x) == IF x > 0 THEN 1 ELSE IF x < 0 THEN 0 - 1 ELSE 0
abs(x) == IF x < 0 THEN 0 - x ELSE x

\* the while loop stopped by pieces only, not by blocked cells
RECURSIVE pathWalkThroughBlocked(_, _, _, _, _, _, _)
pathWalkThroughBlocked(b, r, c, dr, dc, to, occupied) ==
    IF ~(r # to.row \/ c # to.col) THEN TRUE
    ELSE IF keyOf(r, c) \in occupied THEN FALSE
    ELSE pathWalkThroughBlocked(b, r + dr, c + dc, dr, dc, to, occupied)

\* The while loop of pathClear, at (r,c).  It is only entered for aligned
\* squares, so it reaches `to` without leaving the board.
RECURSIVE pathWalk(_, _, _, _, _, _, _)
pathWalk(b, r, c, dr, dc, to, occupied) ==
    IF ~(r # to.row \/ c # to.col) THEN TRUE
    ELSE IF b.cells[r + 1][c + 1] = "blocked" THEN FALSE
    ELSE IF keyOf(r, c) \in occupied THEN FALSE
    ELSE pathWalk(b, r + dr, c + dc, dr, dc, to, occupied)

\* pathClear testing the target square as well
pathClearToTarget(b, from, to, occupied) ==
    /\ b.cells[to.row + 1][to.col + 1] # "blocked"
    /\ keyOf(to.row, to.col) \notin occupied
    /\ pathWalk(b, from.row + sign(to.row - from.row), from.col + sign(to.col - from.col),
                sign(to.row - from.row), sign(to.col - from.col), to, occupied)

pathClear(b, from, to, occupied) ==
    LET dr == sign(to.row - from.row)
        dc == sign(to.col - from.col)
    IN  pathWalk(b, from.row + dr, from.col + dc, dr, dc, to, occupied)

piecesAttack(b, pa, pb, occupied) ==
    LET dr == pb.row - pa.row
        dc == pb.col - pa.col
        adr == abs(dr)
        adc == abs(dc)
    IN  CASE pa.type = "rook" ->
                IF dr = 0 \/ dc = 0 THEN pathClear(b, pa, pb, occupied) ELSE FALSE
          [] pa.type = "bishop" ->
                IF adr = adc THEN pathClear(b, pa, pb, occupied) ELSE FALSE
          [] pa.type = "queen" ->
                IF dr = 0 \/ dc = 0 \/ adr = adc
                THEN pathClear(b, pa, pb, occupied) ELSE FALSE
          [] pa.type = "knight" -> (adr = 2 /\ adc = 1) \/ (adr = 1 /\ adc = 2)
          [] pa.type = "king" -> adr <= 1 /\ adc <= 1 /\ (adr + adc > 0)
          [] pa.type = "pawn" -> dr = 0 - 1 /\ (dc = 0 - 1 \/ dc = 1)
          [] OTHER -> FALSE

----------------------------------------------------------------------------
(* Conflict evaluator                                                       *)

occupiedOf(pl) == {keyOf(pl[i].row, pl[i].col) : i \in DOMAIN pl}

\* the double loop testing only the earlier piece against the later one
conflictPairsOneWay(b, pl) ==
    LET occupied == occupiedOf(pl)
    IN  {ij \in (DOMAIN pl) \X (DOMAIN pl) :
            /\ ij[1] < ij[2]
            /\ piecesAttack(b, pl[ij[1]], pl[ij[2]], occupied)}

\* The pairs (i,j), i < j, of the double loop whose pieces attack in either
\* direction.
conflictPairs(b, pl) ==
    LET occupied == occupiedOf(pl)
    IN  {ij \in (DOMAIN pl) \X (DOMAIN pl) :
            /\ ij[1] < ij[2]
            /\ \/ piecesAttack(b, pl[ij[1]], pl[ij[2]], occupied)
               \/ piecesAttack(b, pl[ij[2]], pl[ij[1]], occupied)}

evaluateConflicts(b, pl) ==
    LET pairs == conflictPairs(b, pl)
    IN  [positions |-> {keyOf(pl[ij[1]].row, pl[ij[1]].col) : ij \in pairs}
                       \cup {keyOf(pl[ij[2]].row, pl[ij[2]].col) : ij \in pairs},
         pairCount |-> Cardinality(pairs)]

isLegalPlacement(b, pl) == Cardinality(evaluateConflicts(b, pl).positions) = 0

----------------------------------------------------------------------------
(* Backtracking solver                                                      *)

\* The solver's priority table: queen, rook, bishop, knight, pawn, king.
priority ==
    [t \in PieceTypes |->
        CASE t = "queen" -> 0 [] t = "rook" -> 1 [] t = "bishop" -> 2
          [] t = "knight" -> 3 [] t = "pawn" -> 4 [] t = "king" -> 5]

\* inventory[type] ?? 0: an inventory is a function from the types it names.
invCount(inv, t) == IF t \in DOMAIN inv THEN inv[t] ELSE 0

\* Object.keys(inv), here in the order inventoryForSeed writes the keys.
RECURSIVE keysFrom(_, _)
keysFrom(inv, k) ==
    IF k > 5 THEN <<>>
    ELSE LET t == CHOOSE x \in PieceTypes : priority[x] = k
         IN  (IF t \in DOMAIN inv THEN <<t>> ELSE <<>>) \o keysFrom(inv, k + 1)

keysOf(inv) == keysFrom(inv, 0)

\* count copies of t
RECURSIVE copies(_, _)
copies(t, count) == IF count <= 0 THEN <<>> ELSE <<t>> \o copies(t, count - 1)

RECURSIVE buildFrom(_, _, _)
buildFrom(inv, keys, i) ==
    IF i > Len(keys) THEN <<>>
    ELSE copies(keys[i], invCount(inv, keys[i])) \o buildFrom(inv, keys, i + 1)

buildInventoryArray(inv) == buildFrom(inv, keysOf(inv), 1)

\* list.filter(keep)
RECURSIVE filterSeq(_, _, _)
filterSeq(list, keep(_), i) ==
    IF i > Len(list) THEN <<>>
    ELSE (IF keep(list[i]) THEN <<list[i]>> ELSE <<>>) \o filterSeq(list, keep, i + 1)

\* list.sort((a, b) => priority[a] - priority[b]): a stable sort, level by level
RECURSIVE sortFrom(_, _)
sortFrom(list, k) ==
    IF k > 5 THEN <<>>
    ELSE LET AtLevel(t) == priority[t] = k
         IN  filterSeq(list, AtLevel, 1) \o sortFrom(list, k + 1)

sortByPriority(list) == sortFrom(list, 0)

\* usedCounts after the preplaced loop has taken the first n pieces
usedCountsOf(pre, n) ==
    [t \in PieceTypes |-> Cardinality({i \in 1..n : pre[i].type = t})]

\* the preplaced loop without its inventory test
preplacedRejectedNoCount(b, inv, pre) ==
    \E i \in DOMAIN pre : ~isValidSquare(b, pre[i].row, pre[i].col)

\* The preplaced loop: TRUE when some piece makes it return null.
preplacedRejected(b, inv, pre) ==
    \E i \in DOMAIN pre :
        \/ ~isValidSquare(b, pre[i].row, pre[i].col)
        \/ invCount(inv, pre[i].type) < usedCountsOf(pre, i)[pre[i].type]

\* remainingPieces: the inventory array filtered by usedCounts, then sorted
remainingPiecesOf(inv, usedCounts) ==
    LET Keep(t) == usedCounts[t] < invCount(inv, t)
    IN  sortByPriority(filterSeq(buildInventoryArray(inv), Keep, 1))

\* cells: the valid squares in row-major order
RECURSIVE validCellsFrom(_, _)
validCellsFrom(b, k) ==
    IF k >= b.height * b.width THEN <<>>
    ELSE LET r == k \div b.width
             c == k % b.width
         IN  (IF b.cells[r + 1][c + 1] = "valid" THEN <<[row |-> r, col |-> c]>> ELSE <<>>)
             \o validCellsFrom(b, k + 1)

validCells(b) == validCellsFrom(b, 0)

\* isSafe testing only whether the candidate attacks a placed piece
isSafeOneWay(b, candidate, placed, occupied) ==
    ~\E i \in DOMAIN placed : piecesAttack(b, candidate, placed[i], occupied)

\* the inner loop over `placements`: no placed piece attacks or is attacked
isSafe(b, candidate, placed, occupied) ==
    ~\E i \in DOMAIN placed :
        \/ piecesAttack(b, candidate, placed[i], occupied)
        \/ piecesAttack(b, placed[i], candidate, occupied)

\* backtrack(idx), with the loop over cells at position k (1-based).  The
\* closure's placements and occupied are passed and returned.
RECURSIVE backtrackFrom(_, _, _, _, _, _, _)
backtrackFrom(b, remaining, cells, idx, k, placed, occupied) ==
    IF idx = Len(remaining) THEN [solved |-> TRUE, placements |-> placed]
    ELSE IF k > Len(cells) THEN [solved |-> FALSE, placements |-> placed]
    ELSE LET cell == cells[k]
             key == keyOf(cell.row, cell.col)
             candidate == [row |-> cell.row, col |-> cell.col, type |-> remaining[idx + 1]]
         IN  IF key \in occupied
             THEN backtrackFrom(b, remaining, cells, idx, k + 1, placed, occupied)
             ELSE IF ~isSafe(b, candidate, placed, occupied)
             THEN backtrackFrom(b, remaining, cells, idx, k + 1, placed, occupied)
             ELSE LET pushed == Append(placed, candidate)
                      added == occupied \cup {key}
                      sub == backtrackFrom(b, remaining, cells, idx + 1, 1, pushed, added)
                  IN  IF sub.solved THEN sub
                      ELSE backtrackFrom(b, remaining, cells, idx, k + 1,
                                         SubSeq(pushed, 1, Len(pushed) - 1),
                                         added \ {key})

backtrack(b, remaining, cells, placed, occupied) ==
    backtrackFrom(b, remaining, cells, 0, 1, placed, occupied)

\* A return value of solveWithInventory: null, or the placement list.
\* `searched` records whether backtrack was called.
NullResult(searched) == [ok |-> FALSE, list |-> <<>>, searched |-> searched]

solveWithInventory(b, inv, pre) ==
    IF preplacedRejected(b, inv, pre) THEN NullResult(FALSE)
    ELSE IF ~isLegalPlacement(b, pre) THEN NullResult(FALSE)
    ELSE LET remaining == remainingPiecesOf(inv, usedCountsOf(pre, Len(pre)))
             res == backtrack(b, remaining, validCells(b), pre, occupiedOf(pre))
         IN  IF res.solved
             THEN [ok |-> TRUE, list |-> res.placements, searched |-> TRUE]
             ELSE NullResult(TRUE)

----------------------------------------------------------------------------
(* Solvable-board search and inventory generation                           *)

\* The literal null of findSolvableBoard's fallback.
Null == [ok |-> FALSE, list |-> <<>>, searched |-> FALSE]

\* every attempt on the base seed
attemptSeedAlwaysBase(baseSeed, attempt) == baseSeed

\* attempt === 0 ? baseSeed : `${baseSeed}-${attempt}`
attemptSeedOf(baseSeed, attempt) ==
    IF attempt = 0 THEN baseSeed ELSE baseSeed \o <<45>> \o numStr(attempt)

\* the fallback returning the board of the last attempt made
fallbackLastAttempt(baseSeed, size, tried) ==
    [board |-> generateBoard(IF tried = <<>> THEN baseSeed ELSE tried[Len(tried)], size),
     solution |-> Null, tried |-> tried]

\* After the loop: the board of the base seed, generated again, with null.
fallback(baseSeed, size, tried) ==
    [board |-> generateBoard(baseSeed, size), solution |-> Null, tried |-> tried]

\* The loop of findSolvableBoard from `attempt` on, then the fallback.  The
\* source generates boards of DEFAULT_SIZE = 8; here the edge is the parameter
\* `size`.  `tried` lists the seeds of the attempts made, in order.
RECURSIVE findFrom(_, _, _, _, _, _)
findFrom(baseSeed, inv, maxAttempts, size, attempt, tried) ==
    IF attempt < maxAttempts
    THEN LET attemptSeed == attemptSeedOf(baseSeed, attempt)
             b == generateBoard(attemptSeed, size)
             sol == solveWithInventory(b, inv, <<>>)
         IN  IF sol.ok
             THEN [board |-> b, solution |-> sol, tried |-> Append(tried, attemptSeed)]
             ELSE findFrom(baseSeed, inv, maxAttempts, size, attempt + 1,
                           Append(tried, attemptSeed))
    ELSE fallback(baseSeed, size, tried)

findSolvableBoard(baseSeed, inv, maxAttempts, size) ==
    findFrom(baseSeed, inv, maxAttempts, size, 0, <<>>)

\* roll(min, max) = Math.floor(rng() * (max - min + 1)) + min for rng() = u / 2^32
roll(u, min, max) ==
    LET k == max - min + 1
    IN  ((u[1] * k + ((u[2] * k) \div Half)) \div Half) + min

inventoryForSeed(seed) ==
    LET us == rngDraws(hashSeed(seed), 5).us
    IN  [t \in PieceTypes |->
            CASE t = "queen" -> roll(us[1], 1, 2)
              [] t = "rook" -> roll(us[2], 3, 4)
              [] t = "bishop" -> roll(us[3], 2, 3)
              [] t = "knight" -> roll(us[4], 2, 3)
              [] t = "pawn" -> roll(us[5], 4, 6)
              [] t = "king" -> 1]

----------------------------------------------------------------------------
(* App: the placement list and the hint                                     *)

\* null for a square key that is absent
NoKey == <<>>

\* placedCounts: the pieces of each type in the placement list
placedCounts(pl) == [t \in PieceTypes |-> Cardinality({i \in DOMAIN pl : pl[i].type = t})]

\* remainingOf(type); a type of no inventory entry (also `undefined`) counts 0
remainingOf(inv, pl, type) ==
    invCount(inv, type) - (IF type \in PieceTypes THEN placedCounts(pl)[type] ELSE 0)

\* prev.findIndex((p) => p.row === row && p.col === col): 0 when none
findIndex(prev, row, col) ==
    IF \E i \in DOMAIN prev : prev[i].row = row /\ prev[i].col = col
    THEN CHOOSE i \in DOMAIN prev :
            /\ prev[i].row = row /\ prev[i].col = col
            /\ \A j \in 1..(i - 1) : ~(prev[j].row = row /\ prev[j].col = col)
    ELSE 0

\* the list without its i-th element (splice(i, 1), filter idx !== i)
without(list, i) == SubSeq(list, 1, i - 1) \o SubSeq(list, i + 1, Len(list))

\* togglePlacement placing whatever the inventory holds
togglePlacementNoLimit(b, inv, sel, prev, row, col) ==
    IF b.cells[row + 1][col + 1] = "blocked" THEN prev
    ELSE IF findIndex(prev, row, col) > 0 THEN without(prev, findIndex(prev, row, col))
    ELSE Append(prev, [row |-> row, col |-> col, type |-> sel])

\* togglePlacement(row, col): the placement list it sets
togglePlacement(b, inv, sel, prev, row, col) ==
    IF b.cells[row + 1][col + 1] = "blocked" THEN prev
    ELSE IF findIndex(prev, row, col) > 0 THEN without(prev, findIndex(prev, row, col))
    ELSE IF remainingOf(inv, prev, sel) <= 0 THEN prev
    ELSE Append(prev, [row |-> row, col |-> col, type |-> sel])

\* prev.slice(0, -1)
dropLast(prev) == SubSeq(prev, 1, Len(prev) - 1)

\* (Object.keys(inv))[0]; "undefined" for an empty inventory
firstKey(inv) == IF keysOf(inv) = <<>> THEN "undefined" ELSE keysOf(inv)[1]

\* totalPieces and allPlaced and parHit
totalPieces(inv) == Len(buildInventoryArray(inv))

allPlaced(inv, pl) ==
    /\ Len(pl) = totalPieces(inv)
    /\ \A i \in DOMAIN keysOf(inv) :
          placedCounts(pl)[keysOf(inv)[i]] = invCount(inv, keysOf(inv)[i])

hasConflicts(b, pl) == Cardinality(evaluateConflicts(b, pl).positions) > 0

parHit(b, inv, pl) == allPlaced(inv, pl) /\ ~hasConflicts(b, pl)

\* placements.find(pl => same row, col and type) finds something
matched(pl, p) ==
    \E i \in DOMAIN pl : pl[i].row = p.row /\ pl[i].col = p.col /\ pl[i].type = p.type

\* the key of the first piece of the solution, matched or not
firstOfSolution(sol, pl) ==
    IF sol = <<>> THEN NoKey ELSE keyOf(sol[1].row, sol[1].col)

\* The loop over solvedWithCurrent: the key of its first piece that matches no
\* placement, null when all match.
firstUnmatched(sol, pl) ==
    IF \E i \in DOMAIN sol : ~matched(pl, sol[i])
    THEN LET i == CHOOSE k \in DOMAIN sol :
                     ~matched(pl, sol[k]) /\ \A j \in 1..(k - 1) : matched(pl, sol[j])
         IN  keyOf(sol[i].row, sol[i].col)
    ELSE NoKey

\* The loop over placements when the solver fails on all of them: the key of
\* the first piece without which the solver succeeds, null when there is none.
firstRemovable(b, inv, pl) ==
    IF \E i \in DOMAIN pl : solveWithInventory(b, inv, without(pl, i)).ok
    THEN LET i == CHOOSE k \in DOMAIN pl :
                     /\ solveWithInventory(b, inv, without(pl, k)).ok
                     /\ \A j \in 1..(k - 1) : ~solveWithInventory(b, inv, without(pl, j)).ok
         IN  keyOf(pl[i].row, pl[i].col)
    ELSE NoKey

\* hintState
hintState(show, b, inv, pl) ==
    IF ~show THEN [wrong |-> NoKey, suggest |-> NoKey]
    ELSE IF hasConflicts(b, pl) THEN [wrong |-> NoKey, suggest |-> NoKey]
    ELSE LET solvedWithCurrent == solveWithInventory(b, inv, pl)
         IN  IF ~solvedWithCurrent.ok
             THEN [wrong |-> firstRemovable(b, inv, pl), suggest |-> NoKey]
             ELSE IF parHit(b, inv, pl) THEN [wrong |-> NoKey, suggest |-> NoKey]
             ELSE [wrong |-> NoKey, suggest |-> firstUnmatched(solvedWithCurrent.list, pl)]

----------------------------------------------------------------------------
(* Inputs of the solver and the conflict evaluator                          *)

\* Edge of the hand-built boards; most pieces in an inventory; most preplaced
\* pieces and blocked cells together in an input of the solver; most placed
\* pieces and blocked cells together in an input of the conflict evaluator.
Size == 3
MaxPieces == 3
MaxPreplaced == 2
MaxPlaced == 3

Coords == 0..(Size - 1)
Squares == Coords \X Coords

\* The Size x Size board with the given squares blocked; seed "".
boardWith(blocked) ==
    [width |-> Size, height |-> Size,
     cells |-> [r \in 1..Size |-> [c \in 1..Size |->
                    IF <<r - 1, c - 1>> \in blocked THEN "blocked" ELSE "valid"]],
     seed |-> <<>>]

\* The boards with exactly n blocked cells.
boardsWith(n) == {boardWith(bl) : bl \in {s \in SUBSET Squares : Cardinality(s) = n}}

RECURSIVE sumOver(_, _)
sumOver(f, dom) ==
    IF dom = {} THEN 0
    ELSE LET t == CHOOSE x \in dom : TRUE IN f[t] + sumOver(f, dom \ {t})

\* Every inventory of at most n pieces (a type with no piece is absent).
inventoriesUpTo(n) ==
    {[t \in {x \in PieceTypes : f[x] > 0} |-> f[t]] :
        f \in {g \in [PieceTypes -> 0..n] : sumOver(g, PieceTypes) <= n}}

Inventories == inventoriesUpTo(MaxPieces)

\* Every piece on a square with both coordinates in coords.
PiecesOn(coords) == [row : coords, col : coords, type : PieceTypes]

\* Pieces on the board, and pieces one step outside it.
BoardPieces == PiecesOn(Coords)
OffBoardPieces == PiecesOn((0 - 1)..Size) \ BoardPieces

RECURSIVE listsUpTo(_, _)
listsUpTo(S, n) ==
    IF n = 0 THEN {<<>>}
    ELSE LET shorter == listsUpTo(S, n - 1)
         IN  shorter \cup {Append(l, x) : l \in {s \in shorter : Len(s) = n - 1}, x \in S}

\* The lists of exactly n elements of S.
listsOf(S, n) == {l \in listsUpTo(S, n) : Len(l) = n}

\* Every board with a list of pieces on it (on valid or blocked squares), the
\* blocked cells and the pieces being at most n together.
boardsAndLists(n) ==
    UNION {boardsWith(k) \X listsUpTo(BoardPieces, n - k) : k \in 0..n}

\* Preplaced lists with a piece off the board.
OffBoardLists ==
    {l \in listsUpTo(BoardPieces \cup OffBoardPieces, MaxPreplaced) :
        \E i \in DOMAIN l : l[i] \in OffBoardPieces}

NoBoard == [width |-> 0, height |-> 0, cells |-> <<>>, seed |-> <<>>]
NoInventory == <<>>
NoConflicts == [positions |-> {}, pairCount |-> 0]
NoWord == <<0, 0>>
NoFound == [board |-> NoBoard, solution |-> Null, tried |-> <<>>]
NoHint == [wrong |-> NoKey, suggest |-> NoKey]

\* App before it is used, and no call of backtrack open
AppIdle == selected = "queen" /\ showHint = FALSE /\ hint = NoHint
NoFrames == stack = <<>> /\ visited = <<>> /\ occupiedKeys = {} /\ remainingPieces = <<>>

----------------------------------------------------------------------------
(* Spec: solveWithInventory called on every input                           *)

Init ==
    /\ mode = "input"
    /\ \/ /\ \E bl \in boardsAndLists(MaxPreplaced) : board = bl[1] /\ placements = bl[2]
          /\ inventory \in Inventories
       \/ /\ board = boardWith({})
          /\ inventory \in inventoriesUpTo(1)
          /\ placements \in OffBoardLists
    /\ solution = Null
    /\ conflicts = NoConflicts
    /\ rngA = NoWord
    /\ draws = <<>>
    /\ calls = <<>>
    /\ found = NoFound
    /\ AppIdle
    /\ NoFrames

\* solveWithInventory(board, inventory, placements)
SolveWithInventory ==
    /\ mode = "input"
    /\ mode' = "solved"
    /\ solution' = solveWithInventory(board, inventory, placements)
    /\ UNCHANGED <<board, inventory, placements, conflicts, rngA, draws, calls, found, appVars, frameVars>>

Next == SolveWithInventory

Spec == Init /\ [][Next]_vars

----------------------------------------------------------------------------
(* SpecConflict: evaluateConflicts called on every placement list           *)

InitConflict ==
    /\ mode = "input"
    /\ \E bl \in boardsAndLists(MaxPlaced) : board = bl[1] /\ placements = bl[2]
    /\ inventory = NoInventory
    /\ solution = Null
    /\ conflicts = NoConflicts
    /\ rngA = NoWord
    /\ draws = <<>>
    /\ calls = <<>>
    /\ found = NoFound
    /\ AppIdle
    /\ NoFrames

\* evaluateConflicts(board, placements)
EvaluateConflicts ==
    /\ mode = "input"
    /\ mode' = "evaluated"
    /\ conflicts' = evaluateConflicts(board, placements)
    /\ UNCHANGED <<board, inventory, placements, solution, rngA, draws, calls, found, appVars, frameVars>>

NextConflict == EvaluateConflicts

SpecConflict == InitConflict /\ [][NextConflict]_vars

----------------------------------------------------------------------------
(* SpecStream: generateBoard whatever numbers the generator produces        *)

\* Largest edge of a generated board.
GenSize == 3

\* The numbers on either side of the block threshold 0.28 * 2^32:
\* 1202590842 (blocked) and 1202590843 (valid).
DrawValues == {<<18350, 5242>>, <<18350, 5243>>}

InitGen ==
    /\ mode = "input"
    /\ board = NoBoard
    /\ inventory = NoInventory
    /\ placements = <<>>
    /\ solution = Null
    /\ conflicts = NoConflicts
    /\ rngA = NoWord
    /\ draws = <<>>
    /\ calls = <<>>
    /\ found = NoFound
    /\ AppIdle
    /\ NoFrames

\* generateBoard("", size) with the generator's numbers chosen freely
GenerateFromStream(size, us) ==
    /\ mode = "input"
    /\ mode' = "generated"
    /\ draws' = us
    /\ board' = boardFromDraws(us, <<>>, size)
    /\ UNCHANGED <<inventory, placements, solution, conflicts, rngA, calls, found, appVars, frameVars>>

NextStream ==
    \E size \in 0..GenSize :
        \E us \in [1..(size * size) -> DrawValues] : GenerateFromStream(size, us)

SpecStream == InitGen /\ [][NextStream]_vars

----------------------------------------------------------------------------
(* SpecGen: the seeded generators called one after the other                *)

\* Most calls of the generators in one run.
MaxCalls == 3

\* The seeds "20240101", "1" and "".
Seeds == {<<50, 48, 50, 52, 48, 49, 48, 49>>, <<49>>, <<>>}

\* generateBoard(seed, size); rngA is the state its generator is left in.
GenerateBoard(seed, size) ==
    /\ Len(calls) < MaxCalls
    /\ mode' = "generated"
    /\ board' = generateBoard(seed, size)
    /\ rngA' = rngDraws(hashSeed(seed), size * size).a
    /\ calls' = Append(calls, [fn |-> "generateBoard", seed |-> seed, size |-> size,
                               board |-> board', inventory |-> NoInventory])
    /\ UNCHANGED <<inventory, placements, solution, conflicts, draws, found, appVars, frameVars>>

\* inventoryForSeed(seed); rngA is the state its generator is left in.
InventoryForSeed(seed) ==
    /\ Len(calls) < MaxCalls
    /\ mode' = "generated"
    /\ inventory' = inventoryForSeed(seed)
    /\ rngA' = rngDraws(hashSeed(seed), 5).a
    /\ calls' = Append(calls, [fn |-> "inventoryForSeed", seed |-> seed, size |-> 0,
                               board |-> NoBoard, inventory |-> inventory'])
    /\ UNCHANGED <<board, placements, solution, conflicts, draws, found, appVars, frameVars>>

NextGen ==
    \/ \E seed \in Seeds, size \in (GenSize - 1)..GenSize : GenerateBoard(seed, size)
    \/ \E seed \in Seeds : InventoryForSeed(seed)

SpecGen == InitGen /\ [][NextGen]_vars

----------------------------------------------------------------------------
(* SpecFind: findSolvableBoard on every seed, inventory and attempt budget  *)

\* Most attempts of a search.
MaxAttempts == 3

\* findSolvableBoard(seed, inv, maxAttempts), on boards of edge GenSize;
\* placements keeps maxAttempts.
FindSolvableBoard(seed, inv, maxAttempts) ==
    /\ mode = "input"
    /\ mode' = "found"
    /\ inventory' = inv
    /\ placements' = <<maxAttempts>>
    /\ found' = findSolvableBoard(seed, inv, maxAttempts, GenSize)
    /\ board' = found'.board
    /\ calls' = <<seed>>
    /\ UNCHANGED <<solution, conflicts, rngA, draws, appVars, frameVars>>

NextFind ==
    \E seed \in Seeds, inv \in Inventories, maxAttempts \in 0..MaxAttempts :
        FindSolvableBoard(seed, inv, maxAttempts)

SpecFind == InitGen /\ [][NextFind]_vars

----------------------------------------------------------------------------
(* SpecApp: the handlers of App that change the placement list              *)

\* Most blocked cells of App's board; most pieces of App's inventory when its
\* handlers run.
MaxBlocked == 1
MaxAppPieces == 2

\* The lists App can hold: at most n pieces on distinct valid squares of b,
\* of each type no more than inv counts.
appLists(b, inv, n) ==
    {l \in listsUpTo({p \in BoardPieces : /\ p.type \in DOMAIN inv
                                          /\ b.cells[p.row + 1][p.col + 1] = "valid"}, n) :
        /\ \A i, j \in DOMAIN l : i # j => <<l[i].row, l[i].col>> # <<l[j].row, l[j].col>>
        /\ \A t \in DOMAIN inv : Cardinality({i \in DOMAIN l : l[i].type = t}) <= inv[t]}

\* After the loading effect: a board and an inventory, the first key of the
\* inventory selected, nothing placed, no hint.
InitApp ==
    /\ mode = "loaded"
    /\ \E k \in 0..MaxBlocked : board \in boardsWith(k)
    /\ inventory \in inventoriesUpTo(MaxAppPieces)
    /\ placements = <<>>
    /\ selected = firstKey(inventory)
    /\ showHint = FALSE
    /\ hint = NoHint
    /\ solution = Null
    /\ conflicts = NoConflicts
    /\ rngA = NoWord
    /\ draws = <<>>
    /\ calls = <<>>
    /\ found = NoFound
    /\ NoFrames

\* A click on square (row, col) of the board: togglePlacement, then the effect
\* on placements.length hiding the hint. React renders between two clicks, so
\* remainingOf reads the counts of the list the updater gets.
TogglePlacement(row, col) ==
    /\ placements' = togglePlacement(board, inventory, selected, placements, row, col)
    /\ mode' = IF placements' = placements THEN "ignored" ELSE "toggled"
    /\ showHint' = FALSE
    /\ hint' = hintState(showHint', board, inventory, placements')
    /\ UNCHANGED <<board, inventory, selected, solution, conflicts, rngA, draws, calls,
                   found, frameVars>>

\* The Undo button (onReset), enabled while something is placed.
Undo ==
    /\ Len(placements) > 0
    /\ placements' = dropLast(placements)
    /\ mode' = "undone"
    /\ showHint' = FALSE
    /\ hint' = hintState(showHint', board, inventory, placements')
    /\ UNCHANGED <<board, inventory, selected, solution, conflicts, rngA, draws, calls,
                   found, frameVars>>

\* The Clear button, enabled while something is placed.
Clear ==
    /\ Len(placements) > 0
    /\ placements' = <<>>
    /\ mode' = "cleared"
    /\ showHint' = FALSE
    /\ hint' = hintState(showHint', board, inventory, placements')
    /\ UNCHANGED <<board, inventory, selected, solution, conflicts, rngA, draws, calls,
                   found, frameVars>>

\* A click on a chip of the inventory bar: one chip per key of the inventory.
Select(type) ==
    /\ type \in DOMAIN inventory
    /\ selected' = type
    /\ mode' = "selected"
    /\ UNCHANGED <<board, inventory, placements, showHint, hint, solution, conflicts, rngA,
                   draws, calls, found, frameVars>>

\* inventoryList.indexOf(prev), from 1; 0 when absent
indexOfKey(inv, type) ==
    IF \E i \in DOMAIN keysOf(inv) : keysOf(inv)[i] = type
    THEN CHOOSE i \in DOMAIN keysOf(inv) : keysOf(inv)[i] = type
    ELSE 0

\* The key handler: a, ArrowLeft (delta -1) or d, ArrowRight (delta 1) moves
\* the selection round the inventory list.
KeySelect(delta) ==
    /\ Len(keysOf(inventory)) # 0
    /\ LET n == Len(keysOf(inventory))
           idx == IF indexOfKey(inventory, selected) > 0
                  THEN indexOfKey(inventory, selected) - 1 ELSE 0
       IN  selected' = keysOf(inventory)[((idx + delta + n) % n) + 1]
    /\ mode' = "selected"
    /\ UNCHANGED <<board, inventory, placements, showHint, hint, solution, conflicts, rngA,
                   draws, calls, found, frameVars>>

NextApp ==
    \/ \E row \in Coords, col \in Coords : TogglePlacement(row, col)
    \/ Undo
    \/ Clear
    \/ \E type \in PieceTypes : Select(type)
    \/ \E delta \in {0 - 1, 1} : KeySelect(delta)

SpecApp == InitApp /\ [][NextApp]_vars

----------------------------------------------------------------------------
(* SpecHint: a hint asked for in every state of App                         *)

\* Any state App can be in with at most MaxPreplaced pieces and blocked cells.
InitHint ==
    /\ mode = "loaded"
    /\ \E k \in 0..MaxBlocked :
          /\ board \in boardsWith(k)
          /\ inventory \in Inventories
          /\ placements \in appLists(board, inventory, MaxPreplaced - k)
    /\ selected = firstKey(inventory)
    /\ showHint = FALSE
    /\ hint = NoHint
    /\ solution = Null
    /\ conflicts = NoConflicts
    /\ rngA = NoWord
    /\ draws = <<>>
    /\ calls = <<>>
    /\ found = NoFound
    /\ NoFrames

\* onHint: setShowHint(true), and hintState of the next render
OnHint ==
    /\ mode = "loaded"
    /\ mode' = "hinted"
    /\ showHint' = TRUE
    /\ hint' = hintState(showHint', board, inventory, placements)
    /\ UNCHANGED <<board, inventory, placements, selected, solution, conflicts, rngA,
                   draws, calls, found, frameVars>>

NextHint == OnHint

SpecHint == InitHint /\ [][NextHint]_vars

----------------------------------------------------------------------------
(* SpecSearch: solveWithInventory step by step                              *)

\* Most pieces of an inventory searched step by step.
MaxSearchPieces == 3

\* The squares a blocked cell or a preplaced piece is put on: a corner and the
\* centre.
GivenSquares == {<<0, 0>>, <<1, 1>>}

\* The calls searched step by step, as <<board, preplaced, inventory>>: the
\* open board with nothing preplaced; the open board with one piece
\* preplaced; a board of one blocked cell with nothing preplaced.
searchCalls ==
    {<<boardWith({}), <<>>, inv>> : inv \in inventoriesUpTo(MaxSearchPieces)}
    \cup {<<boardWith({}), <<[row |-> sq[1], col |-> sq[2], type |-> t]>>, inv>> :
             sq \in GivenSquares, t \in PieceTypes,
             inv \in inventoriesUpTo(MaxSearchPieces - 1)}
    \cup {<<boardWith({sq}), <<>>, inv>> :
             sq \in GivenSquares, inv \in inventoriesUpTo(MaxSearchPieces - 1)}

InitSearch ==
    /\ mode = "idle"
    /\ board = NoBoard
    /\ placements = <<>>
    /\ inventory = NoInventory
    /\ solution = Null
    /\ conflicts = NoConflicts
    /\ rngA = NoWord
    /\ draws = <<>>
    /\ calls = <<>>
    /\ found = NoFound
    /\ AppIdle
    /\ NoFrames

\* occupied.delete(key) leaving the key in the set
deleteNothing(occ, key) == occ

\* occupied.delete(key)
deleteKey(occ, key) == occ \ {key}

\* the cell the loop of frame d is at
loopCell(d) == validCells(board)[stack[d]]

\* solveWithInventory(b, inv, pre) is called.
Call(b, inv, pre) ==
    /\ mode = "idle"
    /\ mode' = "input"
    /\ board' = b
    /\ inventory' = inv
    /\ placements' = pre
    /\ UNCHANGED <<solution, conflicts, rngA, draws, calls, found, appVars, frameVars>>

\* The body of solveWithInventory down to the call backtrack(0): null for a
\* preplaced list that fails validation, else the first frame.
Enter ==
    /\ mode = "input"
    /\ IF preplacedRejected(board, inventory, placements)
          \/ ~isLegalPlacement(board, placements)
       THEN /\ mode' = "returned"
            /\ solution' = NullResult(FALSE)
            /\ UNCHANGED frameVars
       ELSE /\ mode' = "searching"
            /\ remainingPieces' = remainingPiecesOf(inventory,
                                              usedCountsOf(placements, Len(placements)))
            /\ occupiedKeys' = occupiedOf(placements)
            /\ stack' = <<1>>
            /\ visited' = <<placements>>
            /\ UNCHANGED solution
    /\ UNCHANGED <<board, inventory, placements, conflicts, rngA, draws, calls, found, appVars>>

\* idx === remainingPieces.length in the innermost call: it returns true, and
\* so does every call below it; solveWithInventory returns the placements.
Succeed ==
    /\ mode = "searching"
    /\ Len(stack) - 1 = Len(remainingPieces)
    /\ mode' = "returned"
    /\ solution' = [ok |-> TRUE, list |-> placements, searched |-> TRUE]
    /\ stack' = <<>>
    /\ UNCHANGED <<board, inventory, placements, conflicts, rngA, draws, calls, found,
                   appVars, visited, occupiedKeys, remainingPieces>>

\* The loop of the innermost call passes a cell that is occupied or not safe.
Skip ==
    /\ mode = "searching"
    /\ Len(stack) - 1 < Len(remainingPieces)
    /\ stack[Len(stack)] <= Len(validCells(board))
    /\ LET cell == loopCell(Len(stack))
           candidate == [row |-> cell.row, col |-> cell.col,
                         type |-> remainingPieces[Len(stack)]]
       IN  \/ keyOf(cell.row, cell.col) \in occupiedKeys
           \/ ~isSafe(board, candidate, placements, occupiedKeys)
    /\ stack' = [stack EXCEPT ![Len(stack)] = @ + 1]
    /\ UNCHANGED <<mode, board, inventory, placements, solution, conflicts, rngA, draws,
                   calls, found, appVars, visited, occupiedKeys, remainingPieces>>

\* The loop of the innermost call places a piece on a free safe cell and calls
\* backtrack(idx + 1).
Place ==
    /\ mode = "searching"
    /\ Len(stack) - 1 < Len(remainingPieces)
    /\ stack[Len(stack)] <= Len(validCells(board))
    /\ LET cell == loopCell(Len(stack))
           candidate == [row |-> cell.row, col |-> cell.col,
                         type |-> remainingPieces[Len(stack)]]
       IN  /\ keyOf(cell.row, cell.col) \notin occupiedKeys
           /\ isSafe(board, candidate, placements, occupiedKeys)
           /\ placements' = Append(placements, candidate)
           /\ occupiedKeys' = occupiedKeys \cup {keyOf(cell.row, cell.col)}
    /\ stack' = Append(stack, 1)
    /\ visited' = Append(visited, placements')
    /\ UNCHANGED <<mode, board, inventory, solution, conflicts, rngA, draws, calls, found,
                   appVars, remainingPieces>>

\* The loop of the innermost call is over: it returns false.  Its caller pops
\* the placement it made, deletes its key and goes on to its next cell; with
\* no caller left solveWithInventory returns null.
Backtrack ==
    /\ mode = "searching"
    /\ Len(stack) - 1 < Len(remainingPieces)
    /\ stack[Len(stack)] > Len(validCells(board))
    /\ IF Len(stack) = 1
       THEN /\ mode' = "returned"
            /\ solution' = NullResult(TRUE)
            /\ stack' = <<>>
            /\ UNCHANGED <<placements, occupiedKeys>>
       ELSE /\ placements' = SubSeq(placements, 1, Len(placements) - 1)
            /\ occupiedKeys' = deleteKey(occupiedKeys, keyOf(loopCell(Len(stack) - 1).row,
                                                     loopCell(Len(stack) - 1).col))
            /\ stack' = [SubSeq(stack, 1, Len(stack) - 1)
                            EXCEPT ![Len(stack) - 1] = @ + 1]
            /\ UNCHANGED <<mode, solution>>
    /\ UNCHANGED <<board, inventory, conflicts, rngA, draws, calls, found, appVars,
                   visited, remainingPieces>>

NextSearch ==
    \/ mode = "idle" /\ \E c \in searchCalls : Call(c[1], c[3], c[2])
    \/ Enter
    \/ Succeed
    \/ Skip
    \/ Place
    \/ Backtrack

\* The call runs to its end: JavaScript runs it without interruption.
SpecSearch == InitSearch /\ [][NextSearch]_vars /\ WF_vars(NextSearch)

----------------------------------------------------------------------------
(* Claims about the solver (Spec)                                           *)

countType(list, t) == Cardinality({i \in DOMAIN list : list[i].type = t})

onBoard(b, p) == p.row >= 0 /\ p.col >= 0 /\ p.row < b.height /\ p.col < b.width

\* C1: whenever solveWithInventory returns a placement list, evaluateConflicts
\* on that list reports no conflict (no positions, pairCount 0) and every piece
\* of the list is on a valid square inside the board.
C1_SolverSound ==
    (mode = "solved" /\ solution.ok) =>
        /\ evaluateConflicts(board, solution.list).positions = {}
        /\ evaluateConflicts(board, solution.list).pairCount = 0
        /\ \A i \in DOMAIN solution.list :
              /\ onBoard(board, solution.list[i])
              /\ board.cells[solution.list[i].row + 1][solution.list[i].col + 1] = "valid"

\* A list is returned that holds a preplaced piece and two pieces the search
\* placed, a pawn among them.
C1_Witness ==
    /\ mode = "solved"
    /\ solution.ok
    /\ Len(placements) = 1
    /\ Len(solution.list) = 3
    /\ \E i \in DOMAIN solution.list : i > 1 /\ solution.list[i].type = "pawn"

\* C2: whenever solveWithInventory returns a placement list, the list holds,
\* for each piece type, exactly as many pieces as the inventory counts.
C2_CountsMatchInventory ==
    (mode = "solved" /\ solution.ok) =>
        \A t \in PieceTypes : countType(solution.list, t) = invCount(inventory, t)

\* The preplaced list passes the solver's validation: valid squares, within
\* the inventory counts, no conflict; and its pieces are on distinct squares.
passesValidation(b, inv, pre) ==
    /\ \A i \in DOMAIN pre :
          onBoard(b, pre[i]) /\ b.cells[pre[i].row + 1][pre[i].col + 1] = "valid"
    /\ \A t \in PieceTypes : countType(pre, t) <= invCount(inv, t)
    /\ evaluateConflicts(b, pre).pairCount = 0
    /\ \A i, j \in DOMAIN pre :
          i # j => <<pre[i].row, pre[i].col>> # <<pre[j].row, pre[j].col>>

\* The pieces of the inventory not in the preplaced list, one by one.
trueRemaining(inv, pre) ==
    LET Left(t) == invCount(inv, t) - countType(pre, t)
    IN  buildInventoryArray([t \in PieceTypes |-> Left(t)])

\* Some way of putting the pieces `rest` on distinct free valid squares leaves
\* the whole list without conflict.
RECURSIVE completable(_, _, _)
completable(b, placed, rest) ==
    IF rest = <<>> THEN evaluateConflicts(b, placed).pairCount = 0
    ELSE \E sq \in (0..(b.height - 1)) \X (0..(b.width - 1)) :
            /\ b.cells[sq[1] + 1][sq[2] + 1] = "valid"
            /\ \A i \in DOMAIN placed : <<placed[i].row, placed[i].col>> # sq
            /\ completable(b, Append(placed, [row |-> sq[1], col |-> sq[2],
                                               type |-> Head(rest)]), Tail(rest))

\* C3: for a preplaced list that passes validation, solveWithInventory returns
\* a list exactly when all pieces of the inventory can be put on distinct valid
\* squares, the preplaced pieces where they are, without conflict.
C3_SolverExact ==
    (mode = "solved" /\ passesValidation(board, inventory, placements)) =>
        (solution.ok <=> completable(board, placements, trueRemaining(inventory, placements)))

\* C4: solveWithInventory returns null, without running the search, whenever a
\* preplaced piece is on a blocked square or off the board, or the preplaced
\* pieces of a type outnumber the inventory's count of it (0 for a type the
\* inventory does not name), or the preplaced pieces alone conflict.
C4_RejectsBadPreplaced ==
    LET offSquare == \E i \in DOMAIN placements :
                        \/ ~onBoard(board, placements[i])
                        \/ board.cells[placements[i].row + 1][placements[i].col + 1] = "blocked"
        tooMany == \E t \in PieceTypes : countType(placements, t) > invCount(inventory, t)
    IN  (mode = "solved" /\ (offSquare \/ tooMany \/ evaluateConflicts(board, placements).pairCount > 0))
            => (~solution.ok /\ ~solution.searched)

\* Null is returned for two preplaced pieces on valid squares and within the
\* inventory that attack each other.
C4_Witness ==
    /\ mode = "solved"
    /\ Len(placements) = 2
    /\ passesValidation(board, inventory, <<placements[1]>>)
    /\ \A t \in PieceTypes : countType(placements, t) <= invCount(inventory, t)
    /\ \A i \in DOMAIN placements : isValidSquare(board, placements[i].row, placements[i].col)
    /\ <<placements[1].row, placements[1].col>> # <<placements[2].row, placements[2].col>>
    /\ evaluateConflicts(board, placements).pairCount = 1
    /\ ~solution.ok
    /\ ~solution.searched

----------------------------------------------------------------------------
(* Claims about board generation (SpecStream)                               *)

\* The random pass marks cell k (row-major, 1-based) blocked when the k-th
\* number of the generator is 1202590842, the one below 0.28 * 2^32.
rawBlocked(k) == draws[k] = <<18350, 5242>>

\* the blocked cells of the random pass among the first k
rawBlockedUpTo(k) == Cardinality({j \in 1..k : rawBlocked(j)})

\* the least m with m >= 0.45 * total
floorOfValid(total) == CHOOSE m \in 0..total : 100 * m >= 45 * total /\ 100 * (m - 1) < 45 * total

\* C5: a generated board has at least ceil(width*height*0.45) valid cells
\* whatever the generator produced.  If the random pass meets that floor the
\* grid is the random pass; otherwise exactly the row-major-earliest blocked
\* cells are flipped to valid, as many as are missing, so that the floor is met
\* exactly.
C5_ValidityFloor ==
    mode = "generated" =>
        LET size == board.width
            total == size * size
            floor == floorOfValid(total)
            rawValid == total - rawBlockedUpTo(total)
            missing == IF rawValid < floor THEN floor - rawValid ELSE 0
            cellAt(k) == board.cells[((k - 1) \div size) + 1][((k - 1) % size) + 1]
        IN  /\ board.height = size
            /\ countValid(board.cells) >= floor
            /\ rawValid < floor => countValid(board.cells) = floor
            /\ \A k \in 1..total :
                  cellAt(k) = IF rawBlocked(k) /\ rawBlockedUpTo(k) > missing
                              THEN "blocked" ELSE "valid"

\* A board of edge 3 whose random pass left 3 valid cells, the first cell among
\* them: two later cells were flipped.
C5_Witness ==
    /\ mode = "generated"
    /\ board.width = 3
    /\ ~rawBlocked(1)
    /\ rawBlockedUpTo(9) = 6
    /\ countValid(board.cells) = 5

----------------------------------------------------------------------------
(* Claims about the seeded generators (SpecGen)                             *)

----------------------------------------------------------------------------
(* Claims about the solvable-board search (SpecFind)                        *)

\* the seed of attempt k < 10 on base seed s: s, then s-1, s-2, ...
seedOfAttempt(s, k) == IF k = 0 THEN s ELSE s \o <<45, 48 + k>>

\* the solver succeeds on the board of attempt k
attemptSolvable(s, inv, k) ==
    solveWithInventory(generateBoard(seedOfAttempt(s, k), GenSize), inv, <<>>).ok

\* C6: findSolvableBoard makes attempts 0, 1, ... in that order, attempt k > 0
\* on the board of seed <base>-<k>; it returns the board and the solution of
\* the lowest attempt the solver succeeds on (full inventory, nothing
\* preplaced), makes no attempt after it, and every attempt before it failed.
C6_FirstSolvableAttempt ==
    mode = "found" =>
        LET base == calls[1]
            maxAttempts == placements[1]
            made == Len(found.tried)
        IN  /\ made <= maxAttempts
            /\ \A k \in 1..made : found.tried[k] = seedOfAttempt(base, k - 1)
            /\ found.solution.ok =>
                  /\ made >= 1
                  /\ found.board = generateBoard(seedOfAttempt(base, made - 1), GenSize)
                  /\ found.solution.list =
                        solveWithInventory(found.board, inventory, <<>>).list
                  /\ attemptSolvable(base, inventory, made - 1)
                  /\ \A k \in 0..(made - 2) : ~attemptSolvable(base, inventory, k)
            /\ ~found.solution.ok => made = maxAttempts

\* A search of three attempts that succeeded on attempt 1, on a board that is
\* not the base seed's.
C6_Witness ==
    /\ mode = "found"
    /\ placements = <<3>>
    /\ found.solution.ok
    /\ Len(found.tried) = 2
    /\ found.board.cells # generateBoard(calls[1], GenSize).cells

\* C7: findSolvableBoard returns solution null exactly when every attempt
\* failed, and then with the board of the base seed: the same cells and seed
\* as attempt 0's board.
C7_FallbackIsBaseBoard ==
    mode = "found" =>
        LET base == calls[1]
            maxAttempts == placements[1]
            allFail == \A k \in 0..(maxAttempts - 1) : ~attemptSolvable(base, inventory, k)
        IN  /\ ~found.solution.ok <=> allFail
            /\ ~found.solution.ok =>
                  /\ found.board.cells = generateBoard(base, GenSize).cells
                  /\ found.board.seed = base
                  /\ found.board.width = GenSize
                  /\ found.board.height = GenSize
                  /\ found.solution.list = <<>>

\* A search of three failed attempts, the last on a board unlike the base one.
C7_Witness ==
    /\ mode = "found"
    /\ placements = <<3>>
    /\ ~found.solution.ok
    /\ Len(found.tried) = 3
    /\ found.board.cells # generateBoard(found.tried[3], GenSize).cells

----------------------------------------------------------------------------
(* Claims about the conflict evaluator (SpecConflict)                       *)

\* the bijections of the index set of a list of n placements
permsOf(n) == {f \in [1..n -> 1..n] : \A i, j \in 1..n : f[i] = f[j] => i = j}

\* C8: every permutation of the placement list yields the same positions set
\* and the same pairCount; for a list of two placements A, B a conflict is
\* reported (both squares, one pair) exactly when A attacks B or B attacks A.
C8_OrderIndependent ==
    mode = "evaluated" =>
        LET n == Len(placements)
        IN  /\ \A f \in permsOf(n) :
                  evaluateConflicts(board, [i \in 1..n |-> placements[f[i]]]) = conflicts
            /\ n = 2 =>
                  LET A == placements[1]
                      B == placements[2]
                      occ == occupiedOf(placements)
                      hit == piecesAttack(board, A, B, occ) \/ piecesAttack(board, B, A, occ)
                  IN  /\ hit => /\ conflicts.pairCount = 1
                                /\ conflicts.positions =
                                      {keyOf(A.row, A.col), keyOf(B.row, B.col)}
                      /\ ~hit => /\ conflicts.pairCount = 0
                                 /\ conflicts.positions = {}

\* Two placements of which only the second attacks the first (a pawn below a
\* piece on its upper diagonal), evaluated as a conflict.
C8_Witness ==
    /\ mode = "evaluated"
    /\ Len(placements) = 2
    /\ ~piecesAttack(board, placements[1], placements[2], occupiedOf(placements))
    /\ piecesAttack(board, placements[2], placements[1], occupiedOf(placements))
    /\ conflicts.pairCount = 1

\* C9: two placements on the same square, whatever their types, are reported
\* as non-attacking: no positions, pairCount 0.
C9_SameSquareNoConflict ==
    (/\ mode = "evaluated"
     /\ Len(placements) = 2
     /\ placements[1].row = placements[2].row
     /\ placements[1].col = placements[2].col)
    => (conflicts.positions = {} /\ conflicts.pairCount = 0)

----------------------------------------------------------------------------
(* Claims about the hint (SpecHint)                                         *)

\* All pieces of the inventory fit on the board without conflict, those of pl
\* where they are.
extendable(b, inv, pl) == completable(b, pl, trueRemaining(inv, pl))

\* C11: for conflict-free placements within the inventory, whenever the hint
\* reports a wrong square, the placements cannot be extended to a complete
\* conflict-free placement of the inventory, and the square is that of the
\* earliest piece whose removal leaves placements that can be.
C11_WrongMeansUnsolvable ==
    (mode = "hinted" /\ ~hasConflicts(board, placements) /\ hint.wrong # NoKey) =>
        /\ ~extendable(board, inventory, placements)
        /\ \E i \in DOMAIN placements :
              /\ hint.wrong = keyOf(placements[i].row, placements[i].col)
              /\ extendable(board, inventory, without(placements, i))
              /\ \A j \in 1..(i - 1) : ~extendable(board, inventory, without(placements, j))

\* C12: when the placements are conflict-free, the solver succeeds with all of
\* them preplaced and the position is not a full correct solution, the hint
\* reports no wrong square and suggests the square of the first piece of the
\* solver's list that matches no placement, a valid square no placement is on;
\* when the placements conflict the hint reports neither square.
C12_SuggestFirstUnmatched ==
    mode = "hinted" =>
        LET sol == solveWithInventory(board, inventory, placements)
        IN  /\ hasConflicts(board, placements) => hint = NoHint
            /\ (~hasConflicts(board, placements) /\ sol.ok
                  /\ ~parHit(board, inventory, placements)) =>
                  /\ hint.wrong = NoKey
                  /\ \E i \in DOMAIN sol.list :
                        /\ hint.suggest = keyOf(sol.list[i].row, sol.list[i].col)
                        /\ ~matched(placements, sol.list[i])
                        /\ \A j \in 1..(i - 1) : matched(placements, sol.list[j])
                        /\ onBoard(board, sol.list[i])
                        /\ board.cells[sol.list[i].row + 1][sol.list[i].col + 1] = "valid"
                        /\ \A k \in DOMAIN placements :
                              <<placements[k].row, placements[k].col>>
                                 # <<sol.list[i].row, sol.list[i].col>>

\* A hint on one placed piece of an inventory of several: a square is suggested.
C12_Witness ==
    /\ mode = "hinted"
    /\ Len(placements) = 1
    /\ ~hasConflicts(board, placements)
    /\ solveWithInventory(board, inventory, placements).ok
    /\ ~parHit(board, inventory, placements)
    /\ hint.suggest # NoKey
    /\ hint.wrong = NoKey

----------------------------------------------------------------------------
(* Claims about lines of sight (SpecConflict)                               *)

\* b is on a line the piece a moves along
aligned(a, b) ==
    LET dr == b.row - a.row
        dc == b.col - a.col
        straight == dr = 0 \/ dc = 0
        diagonal == abs(dr) = abs(dc)
    IN  \/ a.type = "rook" /\ straight
        \/ a.type = "bishop" /\ diagonal
        \/ a.type = "queen" /\ (straight \/ diagonal)

\* the squares strictly between two aligned squares
strictlyBetween(a, b) ==
    LET dr == b.row - a.row
        dc == b.col - a.col
        d == IF abs(dr) > abs(dc) THEN abs(dr) ELSE abs(dc)
    IN  {<<a.row + k * sign(dr), a.col + k * sign(dc)>> : k \in 1..(d - 1)}

\* no square strictly between a and b is blocked or holds a piece of pl
clearBetween(b, pl, pa, pb) ==
    \A sq \in strictlyBetween(pa, pb) :
        /\ b.cells[sq[1] + 1][sq[2] + 1] = "valid"
        /\ \A k \in DOMAIN pl : <<pl[k].row, pl[k].col>> # sq

\* C13: a rook, bishop or queen attacks an aligned target exactly when no cell
\* strictly between them is blocked or occupied, whatever the two end squares
\* are; so two rooks alone on a row conflict exactly when no cell between them
\* is blocked.
C13_SlidersStopAtBlockers ==
    mode = "evaluated" =>
        /\ \A i, j \in DOMAIN placements :
              (i # j /\ aligned(placements[i], placements[j])) =>
                 (piecesAttack(board, placements[i], placements[j], occupiedOf(placements))
                    <=> clearBetween(board, placements, placements[i], placements[j]))
        /\ (/\ Len(placements) = 2
            /\ placements[1].type = "rook" /\ placements[2].type = "rook"
            /\ placements[1].row = placements[2].row
            /\ placements[1].col # placements[2].col) =>
                 (conflicts.pairCount = 1
                    <=> clearBetween(board, placements, placements[1], placements[2]))

\* Two rooks at the ends of a row whose middle cell is blocked, evaluated as
\* no conflict.
C13_Witness ==
    /\ mode = "evaluated"
    /\ Len(placements) = 2
    /\ placements[1] = [row |-> 0, col |-> 0, type |-> "rook"]
    /\ placements[2] = [row |-> 0, col |-> 2, type |-> "rook"]
    /\ board.cells[1][2] = "blocked"
    /\ conflicts.pairCount = 0

\* the pieces of pl are on distinct squares
distinctSquares(pl) ==
    \A i, j \in DOMAIN pl : i # j => <<pl[i].row, pl[i].col>> # <<pl[j].row, pl[j].col>>

\* pa attacks pb when only blocked cells of the board stop a line of sight
boardOnlyAttack(b, pa, pb) ==
    IF pa.type \in {"rook", "bishop", "queen"}
    THEN aligned(pa, pb) /\ clearBetween(b, <<>>, pa, pb)
    ELSE piecesAttack(b, pa, pb, {})

\* C15: for a placement list on distinct squares, evaluateConflicts reports no
\* conflict exactly when no piece attacks another with only blocked cells
\* counted as blockers; and when the search's test rejects a piece of the list
\* against the pieces before it, the whole list has a conflict wherever the
\* later pieces are.
C15_BlockersHideNothing ==
    (mode = "evaluated" /\ distinctSquares(placements)) =>
        /\ (conflicts.pairCount = 0 /\ conflicts.positions = {})
              <=> (\A i, j \in DOMAIN placements :
                      i # j => ~boardOnlyAttack(board, placements[i], placements[j]))
        /\ \A m \in DOMAIN placements :
              LET before == SubSeq(placements, 1, m - 1)
              IN  ~isSafe(board, placements[m], before, occupiedOf(before))
                    => conflicts.pairCount > 0

\* Two pieces that attack each other along a line, and a third piece standing
\* between them: the two no longer see each other, and a conflict is reported.
C15_Witness ==
    /\ mode = "evaluated"
    /\ Len(placements) = 3
    /\ distinctSquares(placements)
    /\ boardOnlyAttack(board, placements[1], placements[2])
    /\ ~piecesAttack(board, placements[1], placements[2], occupiedOf(placements))
    /\ ~piecesAttack(board, placements[2], placements[1], occupiedOf(placements))
    /\ <<placements[3].row, placements[3].col>>
          \in strictlyBetween(placements[1], placements[2])
    /\ conflicts.pairCount > 0

----------------------------------------------------------------------------
(* Claims about the placement list of App (SpecApp)                         *)

\* C14: after any sequence of clicks on squares, Undo, Clear and changes of
\* the selected type, no two pieces of the placement list are on the same
\* square, every piece is on a valid square of the board, and no type has more
\* pieces placed than the inventory counts.
C14_PlacementListWellFormed ==
    /\ distinctSquares(placements)
    /\ \A i \in DOMAIN placements :
          /\ onBoard(board, placements[i])
          /\ board.cells[placements[i].row + 1][placements[i].col + 1] = "valid"
    /\ \A t \in PieceTypes : countType(placements, t) <= invCount(inventory, t)

\* A click that changed nothing while every piece of the selected type, two
\* of them, was placed and a blocked cell was on the board.
C14_Witness ==
    /\ mode = "ignored"
    /\ Len(placements) = 2
    /\ countType(placements, selected) = 2
    /\ invCount(inventory, selected) = 2
    /\ \E r, c \in 1..Size : board.cells[r][c] = "blocked"

----------------------------------------------------------------------------
(* Claims about the search step by step (SpecSearch)                        *)

\* The list solveWithInventory was called with: the placements at the entry
\* of backtrack(0).
preplacedAtEntry == visited[1]

\* While the search runs, the occupied set holds exactly the squares of the
\* placement list, which is the preplaced list and one piece per call below
\* the innermost; no two entries of backtrack saw the same placement list; and
\* what is returned is what solveWithInventory computes: the list with every
\* remaining piece placed, or null with every placement of the search undone.
SearchInv ==
    /\ mode = "searching" =>
          /\ occupiedKeys = occupiedOf(placements)
          /\ Len(placements) = Len(preplacedAtEntry) + Len(stack) - 1
          /\ SubSeq(placements, 1, Len(preplacedAtEntry)) = preplacedAtEntry
          /\ visited[Len(visited)] = placements \/ Len(visited) > Len(stack)
    /\ \A i, j \in DOMAIN visited : i # j => visited[i] # visited[j]
    /\ (mode = "returned" /\ solution.searched) =>
          /\ stack = <<>>
          /\ solution = solveWithInventory(board, inventory, preplacedAtEntry)
          /\ solution.ok =>
                /\ solution.list = placements
                /\ Len(placements) = Len(preplacedAtEntry) + Len(remainingPieces)
          /\ ~solution.ok =>
                /\ placements = preplacedAtEntry
                /\ occupiedKeys = occupiedOf(preplacedAtEntry)
    /\ (mode = "returned" /\ ~solution.searched) =>
          solution = solveWithInventory(board, inventory, placements)

\* C16: solveWithInventory terminates on every board and inventory: the
\* search returns the list with every remaining piece placed, or null once
\* every candidate of every level is exhausted; each return of false undoes
\* exactly the last placement, in the list and in the occupied set, and no
\* placement list is seen twice at an entry of backtrack.
C16_SearchTerminates == [](SearchInv) /\ <>(mode = "returned")

\* A search for two pieces or more that placed pieces, took them back and
\* returned null.
C16_Witness ==
    /\ mode = "returned"
    /\ solution.searched
    /\ ~solution.ok
    /\ Len(remainingPieces) >= 2
    /\ Len(visited) >= 4

====
